---- MODULE Spec2Model ----
(***************************************************************************)
(* Model of matterbridge-vallox: the ValloxDevice class (polling timer,    *)
(* status translation, fan commands) and the platform that writes its      *)
(* snapshots to the Matter attributes (updateValues, the attribute change  *)
(* handlers, the mode translations).  The Vallox client (fetchMetrics,     *)
(* getProfile, setValues, setProfile) is the environment: every call is a  *)
(* request in flight that the environment completes or fails at a later    *)
(* step.                                                                   *)
(*                                                                         *)
(* An optional value (T | undefined) is a set with at most one element:    *)
(* {} is undefined, {v} is the value v.  A metrics response is a function  *)
(* whose domain is the set of keys the response holds.                     *)
(***************************************************************************)
EXTENDS Integers, Sequences, FiniteSets, TLC

(* ------------------------------ bounds --------------------------------- *)
MaxStarts == 2
MaxTicks == 2
MaxCmds == 1
MaxPolls == 3
MaxRawProfile == 6
MaxSpeed == 61
MaxCo2 == 10000

(* --------------------------- program constants ------------------------- *)
\* A_CYC_MODE value of a running unit and of a stopped unit
ModeRunning == 0
ModeStopped == 5
\* fallbacks of valloxSpeedToMatterMode when a speed setting is missing
DefaultLow == 20
DefaultMedium == 40
DefaultHigh == 60

StatusKeys ==
  {"A_CYC_MODE", "A_CYC_RH_VALUE", "A_CYC_FAN_SPEED", "A_CYC_CO2_SENSOR_0", "A_CYC_TEMP_SUPPLY_AIR"}

FanKeys == {"A_CYC_FIREPLACE_EXTR_FAN", "A_CYC_FIREPLACE_SUPP_FAN"}

SpeedKeys == {"A_CYC_HOME_SPEED_SETTING", "A_CYC_AWAY_SPEED_SETTING", "A_CYC_BOOST_SPEED_SETTING"}

\* valloxService.PROFILES of the Vallox client: profile name -> raw value
PROFILES == [NONE |-> 0, HOME |-> 1, AWAY |-> 2, BOOST |-> 3, FIREPLACE |-> 4, EXTRA |-> 5]

\* Object.entries(PROFILES): the keys in insertion order
ProfileEntries == <<"NONE", "HOME", "AWAY", "BOOST", "FIREPLACE", "EXTRA">>

(* ----------------------------- pure helpers ---------------------------- *)
\* metrics[key]: the value, or undefined when the response lacks the key
Get(metrics, key) == IF key \in DOMAIN metrics THEN {metrics[key]} ELSE {}

\* a ?? b
Coalesce(a, b) == IF a = {} THEN b ELSE a

\* the argument handed to setProfile: a raw profile value or a profile name
RawArg(n) == [tag |-> "raw", num |-> n, str |-> ""]
NameArg(s) == [tag |-> "name", num |-> 0 - 1, str |-> s]

\* InvertedProfiles with a fault: the name of the entry after the one holding profile
InvertedProfilesNextEntry(profile) ==
  LET hits == {i \in 1..Len(ProfileEntries) : PROFILES[ProfileEntries[i]] = profile}
  IN  IF hits = {} THEN {}
      ELSE {ProfileEntries[((CHOOSE i \in hits : \A j \in hits : j <= i) % Len(ProfileEntries)) + 1]}

\* profiles = Object.assign({}, ...entries.map(([a, b]) => ({[b]: a}))); profiles[profile]:
\* the last name in entry order whose raw value is profile, undefined when there is none
InvertedProfiles(profile) ==
  LET hits == {i \in 1..Len(ProfileEntries) : PROFILES[ProfileEntries[i]] = profile}
  IN  IF hits = {} THEN {}
      ELSE {ProfileEntries[CHOOSE i \in hits : \A j \in hits : j <= i]}

\* StatusInfo with a fault: a missing register reads as 0 and a raw profile the table
\* lacks reads as HOME
StatusInfoDefaults(metrics, profile) ==
  [power |-> Get(metrics, "A_CYC_MODE") = {ModeRunning},
   fanMode |-> CHOOSE name \in Coalesce(InvertedProfiles(profile), {"HOME"}) : TRUE,
   fanSpeed |-> Coalesce(Get(metrics, "A_CYC_FAN_SPEED"), {0}),
   temperature |-> Coalesce(Get(metrics, "A_CYC_TEMP_SUPPLY_AIR"), {0}),
   relativeHumidity |-> Coalesce(Get(metrics, "A_CYC_RH_VALUE"), {0}),
   carbonDioxideConcentration |-> Coalesce(Get(metrics, "A_CYC_CO2_SENSOR_0"), {0})]

\* the object getStatusInfo returns for a metrics response and a raw profile
StatusInfo(metrics, profile) ==
  [power |-> Get(metrics, "A_CYC_MODE") = {ModeRunning},
   fanMode |-> CHOOSE name \in Coalesce(InvertedProfiles(profile), {"OFF"}) : TRUE,
   fanSpeed |-> Get(metrics, "A_CYC_FAN_SPEED"),
   temperature |-> Get(metrics, "A_CYC_TEMP_SUPPLY_AIR"),
   relativeHumidity |-> Get(metrics, "A_CYC_RH_VALUE"),
   carbonDioxideConcentration |-> Get(metrics, "A_CYC_CO2_SENSOR_0")]

\* PROFILES[mode] ?? 'HOME': the raw value of a known name, else the string 'HOME'
ProfileArgOf(mode) ==
  IF mode \in DOMAIN PROFILES THEN RawArg(PROFILES[mode]) ELSE NameArg("HOME")

\* the client calls changeFanMode(mode) makes, in call order
ModeWrites(mode) ==
  IF mode = "OFF"
  THEN << [kind |-> "values", regs |-> [k \in {"A_CYC_MODE"} |-> ModeStopped], arg |-> RawArg(0)] >>
  ELSE << [kind |-> "values", regs |-> [k \in {"A_CYC_MODE"} |-> ModeRunning], arg |-> RawArg(0)],
          [kind |-> "profile", regs |-> [k \in {} |-> 0], arg |-> ProfileArgOf(mode)] >>

\* the setValues call changeFanSpeed(speed) makes for a nonzero speed
FanWrite(speed) ==
  [kind |-> "values", regs |-> [k \in FanKeys |-> speed], arg |-> RawArg(0)]

\* !speed
Falsy(speed) == speed = {} \/ speed = {0}

\* Number(b) of a boolean b, as the relational operator <= coerces it
BoolToNumber(b) == IF b THEN 1 ELSE 0

\* getModeSpeeds(): the three speed settings of a metrics response
ModeSpeeds(metrics) ==
  [HOME |-> Get(metrics, "A_CYC_HOME_SPEED_SETTING"),
   AWAY |-> Get(metrics, "A_CYC_AWAY_SPEED_SETTING"),
   BOOST |-> Get(metrics, "A_CYC_BOOST_SPEED_SETTING")]

\* matterSpeeds = { Low: AWAY ?? 20, Medium: HOME ?? 40, High: BOOST ?? 60 }
MatterSpeeds(valloxSpeeds) ==
  [Low |-> CHOOSE v \in Coalesce(valloxSpeeds.AWAY, {DefaultLow}) : TRUE,
   Medium |-> CHOOSE v \in Coalesce(valloxSpeeds.HOME, {DefaultMedium}) : TRUE,
   High |-> CHOOSE v \in Coalesce(valloxSpeeds.BOOST, {DefaultHigh}) : TRUE]

\* !speed <= Low ? Low : speed <= Medium ? Medium : High, for a truthy speed
SpeedBucket(speed, matterSpeeds) ==
  LET s == CHOOSE v \in speed : TRUE
  IN  IF BoolToNumber(Falsy(speed)) <= matterSpeeds.Low THEN "Low"
      ELSE IF s <= matterSpeeds.Medium THEN "Medium"
      ELSE "High"

\* SpeedToMatterMode with a fault: only an undefined speed returns early, 0 is bucketed
SpeedToMatterModeZeroBucketed(speed, metrics) ==
  IF speed = {} THEN "Off" ELSE SpeedBucket(speed, MatterSpeeds(ModeSpeeds(metrics)))

\* whether valloxSpeedToMatterMode(speed) calls getModeSpeeds(): only on its else branch
FetchesModeSpeeds(speed) == ~Falsy(speed)

\* valloxSpeedToMatterMode(speed) once getModeSpeeds has answered with metrics
SpeedToMatterMode(speed, metrics) ==
  IF Falsy(speed) THEN "Off" ELSE SpeedBucket(speed, MatterSpeeds(ModeSpeeds(metrics)))

\* airQuality of updateValues with the band below 800 closed at 800
AirQualityClosedBand(co2) ==
  IF ~Falsy(co2) /\ (\A v \in co2 : v > 0)
  THEN LET v == CHOOSE x \in co2 : TRUE
       IN  IF v <= 800 THEN "Good"
           ELSE IF v < 1200 THEN "Moderate"
           ELSE IF v < 1800 THEN "Poor"
           ELSE IF v < 2100 THEN "VeryPoor"
           ELSE "ExtremelyPoor"
  ELSE "Unknown"

\* the airQuality updateValues computes from data.carbonDioxideConcentration:
\* co2 && co2 > 0 ? (co2 < 800 ? Good : co2 < 1200 ? Moderate : co2 < 1800 ? Poor :
\* co2 < 2100 ? VeryPoor : ExtremelyPoor) : Unknown
AirQuality(co2) ==
  IF ~Falsy(co2) /\ (\A v \in co2 : v > 0)
  THEN LET v == CHOOSE x \in co2 : TRUE
       IN  IF v < 800 THEN "Good"
           ELSE IF v < 1200 THEN "Moderate"
           ELSE IF v < 1800 THEN "Poor"
           ELSE IF v < 2100 THEN "VeryPoor"
           ELSE "ExtremelyPoor"
  ELSE "Unknown"

\* the members of FanControl.FanMode
FanModes == {"Off", "Low", "Medium", "High", "On", "Auto", "Smart"}

\* matterModeToValloxMode(mode)
MatterModeToValloxMode(mode) ==
  CASE mode = "Off" -> "OFF"
    [] mode = "Low" -> "AWAY"
    [] mode = "Medium" -> "HOME"
    [] mode = "High" -> "BOOST"
    [] OTHER -> "HOME"

\* FanModeHandler with a fault: the offline flag of the context is not looked at
FanModeHandlerAnyContext(newValue, offline) ==
  IF newValue = {} THEN {} ELSE {MatterModeToValloxMode(v) : v \in newValue}

\* the fanMode handler: the changeFanMode calls it makes for a new value (null is {})
\* and the context's offline flag
FanModeHandler(newValue, offline) ==
  IF newValue = {} \/ offline THEN {} ELSE {MatterModeToValloxMode(v) : v \in newValue}

\* the percentSetting handler: the changeFanSpeed calls it makes
PercentSettingHandler(newValue, offline) ==
  IF newValue = {} \/ offline THEN {} ELSE newValue

\* the attribute values updateValues sets for snapshot data once matterMode is known
\* (an attribute set to null is {})
AttributesOf(data, matterMode) ==
  IF data.power
  THEN [fanMode |-> {matterMode},
        percentSetting |-> Coalesce(data.fanSpeed, {50}),
        airQuality |-> {AirQuality(data.carbonDioxideConcentration)},
        temperature |-> {v * 100 : v \in Coalesce(data.temperature, {0})},
        relativeHumidity |-> {v * 100 : v \in Coalesce(data.relativeHumidity, {0})},
        carbonDioxideConcentration |-> Coalesce(data.carbonDioxideConcentration, {0}),
        fanReachable |-> data.power,
        aqsReachable |-> data.power]
  ELSE [fanMode |-> {"Off"},
        percentSetting |-> {0},
        airQuality |-> {},
        temperature |-> {},
        relativeHumidity |-> {},
        carbonDioxideConcentration |-> {},
        fanReachable |-> data.power,
        aqsReachable |-> data.power]

(* ------------------------------- state --------------------------------- *)
VARIABLES
  timer,        \* this.timer: {} when undefined, else {handle}
  intervals,    \* the interval handles armed in the runtime (setInterval minus clearInterval)
  polls,        \* every getStatusInfo() call made so far, with its position
  delivered,    \* the updateCallback invocations, in order
  device,       \* the unit: its registers and its active profile
  writes,       \* every setValues/setProfile call made so far, with its state
  applied,      \* the ids of the writes the unit has taken, in the order it took them
  cmds,         \* every changeFanMode/changeFanSpeed call made so far, with its position
  starts,       \* number of startPolling() calls
  ticks,        \* number of timer ticks
  stopReturned, \* a startPolling() call was made and stopPolling() has returned since the last one
  pin,          \* the input of a pure computation checked on its own
  pout,         \* its result
  pdone,        \* the computation has been applied
  attrs,        \* the Matter attributes of the two endpoints as the platform set them
  runs          \* every updateValues(data) call made so far, with its position

pureVars == <<pin, pout, pdone>>

platVars == <<attrs, runs>>

devVars == <<timer, intervals, polls, delivered, device, writes, applied, cmds, starts, ticks, stopReturned>>

EmptyMap == [k \in {} |-> 0]

\* the mode names changeFanMode is called with: OFF, names PROFILES holds, and one it lacks
CmdModes == {"OFF", "HOME", "unknown-name"}

\* the speeds changeFanSpeed is called with: 0 and a nonzero percentage
CmdSpeeds == {0, 30}

\* a getStatusInfo() call that has just issued fetchMetrics
NewPoll(origin, c, ws) ==
  [origin |-> origin, cmd |-> c, stage |-> "fetchMetrics", metrics |-> EmptyMap,
   afterStop |-> (origin = "timer" /\ stopReturned),
   wip |-> {w \in 1..Len(ws) : ws[w].cmd = c /\ c # 0 /\ ws[w].state = "inflight"}]

\* ws followed by the calls of list, made by command c
Issue(ws, list, c, awaited) ==
  ws \o [i \in 1..Len(list) |-> list[i] @@ [cmd |-> c, state |-> "inflight", awaited |-> awaited]]

\* what the unit's registers are after it takes write w
RegsAfter(regs, w) ==
  [k \in DOMAIN regs |-> IF w.kind = "values" /\ k \in DOMAIN w.regs THEN w.regs[k] ELSE regs[k]]

\* the active profile after the unit takes write w; a setProfile argument that is no raw
\* value selects nothing
ProfileAfter(profile, w) ==
  IF w.kind = "profile" /\ w.arg.tag = "raw" THEN w.arg.num ELSE profile

\* the response of fetchMetrics(StatusKeys)
StatusMetrics == [k \in StatusKeys |-> device.regs[k]]

\* the getStatusInfo() calls made so far plus those the commands under way still make
PollBudget ==
  Len(polls)
  + Cardinality({c \in 1..Len(cmds) : cmds[c].op = "speed" /\ cmds[c].pc \in {"fanWrite", "modePoll"}})
  + Cardinality({c \in 1..Len(cmds) : cmds[c].pc = "fanWrite"})

DevInit ==
  /\ timer = {}
  /\ intervals = {}
  /\ polls = <<>>
  /\ delivered = <<>>
  \* a stopped unit, its profile HOME
  /\ device = [regs |-> [k \in StatusKeys \cup FanKeys |->
                           CASE k = "A_CYC_MODE" -> ModeStopped
                             [] k = "A_CYC_FAN_SPEED" -> 50
                             [] k = "A_CYC_RH_VALUE" -> 45
                             [] k = "A_CYC_CO2_SENSOR_0" -> 600
                             [] k = "A_CYC_TEMP_SUPPLY_AIR" -> 21
                             [] OTHER -> 0],
               profile |-> PROFILES.HOME]
  /\ writes = <<>>
  /\ applied = <<>>
  /\ cmds = <<>>
  /\ starts = 0
  /\ ticks = 0
  /\ stopReturned = FALSE

\* the endpoints as discoverDevices creates them, before any updateValues: the defaults
\* of their cluster servers
InitialAttrs ==
  [fanMode |-> {"Off"}, percentSetting |-> {0}, airQuality |-> {"Unknown"},
   temperature |-> {}, relativeHumidity |-> {}, carbonDioxideConcentration |-> {},
   fanReachable |-> TRUE, aqsReachable |-> TRUE]

PlatInit ==
  /\ attrs = InitialAttrs
  /\ runs = <<>>

(* --------------------------- polling scheduler ------------------------- *)
\* startPolling() up to its first await: getStatusInfo() issues fetchMetrics
StartPolling ==
  /\ starts < MaxStarts
  /\ PollBudget < MaxPolls
  /\ starts' = starts + 1
  /\ polls' = Append(polls, NewPoll("start", 0, writes))
  /\ stopReturned' = FALSE
  /\ UNCHANGED <<timer, intervals, delivered, device, writes, applied, cmds, ticks, pureVars, platVars>>

\* stopPolling()
StopPolling ==
  /\ IF timer # {}
       THEN intervals' = intervals \ timer /\ timer' = {}
       ELSE UNCHANGED <<timer, intervals>>
  /\ stopReturned' = (starts > 0)
  /\ UNCHANGED <<polls, delivered, device, writes, applied, cmds, starts, ticks, pureVars, platVars>>

\* TimerTick with a fault: a tick is dropped while an earlier poll is in flight
TimerTickWhenIdle(h) ==
  /\ h \in intervals
  /\ ticks < MaxTicks
  /\ PollBudget < MaxPolls
  /\ \A p \in 1..Len(polls) : polls[p].stage \notin {"fetchMetrics", "getProfile"}
  /\ ticks' = ticks + 1
  /\ polls' = Append(polls, NewPoll("timer", 0, writes))
  /\ UNCHANGED <<timer, intervals, delivered, device, writes, applied, cmds, starts, stopReturned, pureVars, platVars>>

\* the runtime fires the interval callback of an armed handle
TimerTick(h) ==
  /\ h \in intervals
  /\ ticks < MaxTicks
  /\ PollBudget < MaxPolls
  /\ ticks' = ticks + 1
  /\ polls' = Append(polls, NewPoll("timer", 0, writes))
  /\ UNCHANGED <<timer, intervals, delivered, device, writes, applied, cmds, starts, stopReturned, pureVars, platVars>>

(* ------------------------------ getStatusInfo -------------------------- *)
\* fetchMetrics resolves: getStatusInfo goes on to call getProfile
FetchMetricsOk(p) ==
  /\ p \in 1..Len(polls)
  /\ polls[p].stage = "fetchMetrics"
  /\ polls' = [polls EXCEPT ![p].stage = "getProfile", ![p].metrics = StatusMetrics]
  /\ UNCHANGED <<timer, intervals, delivered, device, writes, applied, cmds, starts, ticks, stopReturned, pureVars, platVars>>

\* PollRejects with a fault: a rejected poll also clears the interval
PollRejectsClearsTimer(p) ==
  /\ polls' = [polls EXCEPT ![p].stage = "failed", ![p].metrics = EmptyMap]
  /\ cmds' = IF polls[p].origin \in {"mode", "speed"}
               THEN [cmds EXCEPT ![polls[p].cmd].pc = "rejected"]
               ELSE cmds
  /\ intervals' = intervals \ timer
  /\ timer' = {}
  /\ UNCHANGED <<delivered, device, writes, applied, starts, ticks, stopReturned, pureVars, platVars>>

\* the caller of getStatusInfo() of poll p sees it reject: nothing is delivered; a command
\* awaiting it rejects; startPolling rejects before it reaches setInterval
PollRejects(p) ==
  /\ polls' = [polls EXCEPT ![p].stage = "failed", ![p].metrics = EmptyMap]
  /\ cmds' = IF polls[p].origin \in {"mode", "speed"}
               THEN [cmds EXCEPT ![polls[p].cmd].pc = "rejected"]
               ELSE cmds
  /\ UNCHANGED <<timer, intervals, delivered, device, writes, applied, starts, ticks, stopReturned, pureVars, platVars>>

\* fetchMetrics rejects
FetchMetricsFail(p) ==
  /\ p \in 1..Len(polls)
  /\ polls[p].stage = "fetchMetrics"
  /\ PollRejects(p)

\* getProfile rejects
GetProfileFail(p) ==
  /\ p \in 1..Len(polls)
  /\ polls[p].stage = "getProfile"
  /\ PollRejects(p)

\* what the caller of getStatusInfo() of poll p does after updateCallback(status):
\* startPolling arms the interval; changeFanMode resolves, and a changeFanSpeed that
\* awaited it calls getStatusInfo() again; changeFanSpeed resolves
Continue(p, ps) ==
  LET o == polls[p].origin
      c == polls[p].cmd
  IN  /\ timer' = IF o = "start" THEN {p} ELSE timer
      /\ intervals' = IF o = "start" THEN intervals \cup {p} ELSE intervals
      /\ cmds' = CASE o = "mode" /\ cmds[c].op = "mode" -> [cmds EXCEPT ![c].pc = "resolved"]
                   [] o = "mode" /\ cmds[c].op = "speed" -> [cmds EXCEPT ![c].pc = "speedPoll"]
                   [] o = "speed" -> [cmds EXCEPT ![c].pc = "resolved"]
                   [] OTHER -> cmds
      /\ polls' = IF o = "mode" /\ cmds[c].op = "speed"
                    THEN Append(ps, NewPoll("speed", c, writes))
                    ELSE ps

\* GetProfileOk with a fault: a poll that ends while another poll is in flight is
\* coalesced into that one and its callback is skipped
GetProfileOkCoalescing(p) ==
  /\ p \in 1..Len(polls)
  /\ polls[p].stage = "getProfile"
  /\ delivered' = IF \E q \in 1..Len(polls) : q # p /\ polls[q].stage \in {"fetchMetrics", "getProfile"}
                    THEN delivered
                    ELSE Append(delivered, [poll |-> p, status |-> StatusInfo(polls[p].metrics, device.profile)])
  /\ Continue(p, [polls EXCEPT ![p].stage = "delivered", ![p].metrics = EmptyMap])
  /\ UNCHANGED <<device, writes, applied, starts, ticks, stopReturned, pureVars, platVars>>

\* getProfile resolves: getStatusInfo returns the status, the caller hands it to
\* updateCallback and goes on
GetProfileOk(p) ==
  /\ p \in 1..Len(polls)
  /\ polls[p].stage = "getProfile"
  /\ delivered' = Append(delivered, [poll |-> p, status |-> StatusInfo(polls[p].metrics, device.profile)])
  /\ Continue(p, [polls EXCEPT ![p].stage = "delivered", ![p].metrics = EmptyMap])
  /\ UNCHANGED <<device, writes, applied, starts, ticks, stopReturned, pureVars, platVars>>

(* -------------------------------- commands ----------------------------- *)
\* the body of changeFanMode(mode) up to its await, run by command c
EnterChangeFanMode(c, mode, ws) ==
  /\ writes' = Issue(ws, ModeWrites(mode), c, FALSE)
  /\ polls' = Append(polls, NewPoll("mode", c, Issue(ws, ModeWrites(mode), c, FALSE)))

\* changeFanMode(mode), called by the platform
ChangeFanMode(mode) ==
  /\ Len(cmds) < MaxCmds
  /\ PollBudget < MaxPolls
  /\ cmds' = Append(cmds, [op |-> "mode", mode |-> mode, speed |-> 0, pc |-> "modePoll"])
  /\ EnterChangeFanMode(Len(cmds) + 1, mode, writes)
  /\ UNCHANGED <<timer, intervals, delivered, device, applied, starts, ticks, stopReturned, pureVars, platVars>>

\* ChangeFanSpeed with a fault: the fan register write is not awaited
ChangeFanSpeedNoAwait(speed) ==
  /\ Len(cmds) < MaxCmds
  /\ PollBudget + 1 < MaxPolls
  /\ IF speed = 0
       THEN /\ cmds' = Append(cmds, [op |-> "speed", mode |-> "OFF", speed |-> speed, pc |-> "modePoll"])
            /\ EnterChangeFanMode(Len(cmds) + 1, "OFF", writes)
       ELSE /\ cmds' = Append(cmds, [op |-> "speed", mode |-> "FIREPLACE", speed |-> speed, pc |-> "modePoll"])
            /\ EnterChangeFanMode(Len(cmds) + 1, "FIREPLACE", Issue(writes, <<FanWrite(speed)>>, Len(cmds) + 1, FALSE))
  /\ UNCHANGED <<timer, intervals, delivered, device, applied, starts, ticks, stopReturned, pureVars, platVars>>

\* ChangeFanSpeed with a fault: speed 0 is not told apart and takes the fan register path
ChangeFanSpeedNoZeroCheck(speed) ==
  /\ Len(cmds) < MaxCmds
  /\ PollBudget + 1 < MaxPolls
  /\ cmds' = Append(cmds, [op |-> "speed", mode |-> "FIREPLACE", speed |-> speed, pc |-> "fanWrite"])
  /\ writes' = Issue(writes, <<FanWrite(speed)>>, Len(cmds) + 1, TRUE)
  /\ UNCHANGED polls
  /\ UNCHANGED <<timer, intervals, delivered, device, applied, starts, ticks, stopReturned, pureVars, platVars>>

\* changeFanSpeed(speed), called by the platform, up to its first await
ChangeFanSpeed(speed) ==
  /\ Len(cmds) < MaxCmds
  /\ PollBudget + 1 < MaxPolls
  /\ IF speed = 0
       THEN /\ cmds' = Append(cmds, [op |-> "speed", mode |-> "OFF", speed |-> speed, pc |-> "modePoll"])
            /\ EnterChangeFanMode(Len(cmds) + 1, "OFF", writes)
       ELSE /\ cmds' = Append(cmds, [op |-> "speed", mode |-> "FIREPLACE", speed |-> speed, pc |-> "fanWrite"])
            /\ writes' = Issue(writes, <<FanWrite(speed)>>, Len(cmds) + 1, TRUE)
            /\ UNCHANGED polls
  /\ UNCHANGED <<timer, intervals, delivered, device, applied, starts, ticks, stopReturned, pureVars, platVars>>

\* the unit takes write w and the client resolves the call; a changeFanSpeed awaiting it
\* goes on to changeFanMode('FIREPLACE')
WriteOk(w) ==
  /\ w \in 1..Len(writes)
  /\ writes[w].state = "inflight"
  /\ device' = [regs |-> RegsAfter(device.regs, writes[w]), profile |-> ProfileAfter(device.profile, writes[w])]
  /\ applied' = Append(applied, w)
  /\ IF writes[w].awaited
       THEN /\ cmds' = [cmds EXCEPT ![writes[w].cmd].pc = "modePoll"]
            /\ EnterChangeFanMode(writes[w].cmd, "FIREPLACE", [writes EXCEPT ![w].state = "applied"])
       ELSE /\ writes' = [writes EXCEPT ![w].state = "applied"]
            /\ UNCHANGED <<cmds, polls>>
  /\ UNCHANGED <<timer, intervals, delivered, starts, ticks, stopReturned, pureVars, platVars>>

\* the client rejects write w; a changeFanSpeed awaiting it rejects, an unawaited call's
\* rejection reaches no caller
WriteFail(w) ==
  /\ w \in 1..Len(writes)
  /\ writes[w].state = "inflight"
  /\ writes' = [writes EXCEPT ![w].state = "failed"]
  /\ cmds' = IF writes[w].awaited THEN [cmds EXCEPT ![writes[w].cmd].pc = "rejected"] ELSE cmds
  /\ UNCHANGED <<timer, intervals, polls, delivered, device, applied, starts, ticks, stopReturned, pureVars, platVars>>

(* -------------------------------- platform ----------------------------- *)
\* the call this.vallox.changeFanMode(mode) of a handler
CallChangeFanMode(mode) ==
  /\ Len(cmds) < MaxCmds
  /\ PollBudget < MaxPolls
  /\ cmds' = Append(cmds, [op |-> "mode", mode |-> mode, speed |-> 0, pc |-> "modePoll"])
  /\ EnterChangeFanMode(Len(cmds) + 1, mode, writes)

\* the call this.vallox.changeFanSpeed(speed) of a handler
CallChangeFanSpeed(speed) ==
  /\ Len(cmds) < MaxCmds
  /\ PollBudget + 1 < MaxPolls
  /\ IF speed = 0
       THEN /\ cmds' = Append(cmds, [op |-> "speed", mode |-> "OFF", speed |-> speed, pc |-> "modePoll"])
            /\ EnterChangeFanMode(Len(cmds) + 1, "OFF", writes)
       ELSE /\ cmds' = Append(cmds, [op |-> "speed", mode |-> "FIREPLACE", speed |-> speed, pc |-> "fanWrite"])
            /\ writes' = Issue(writes, <<FanWrite(speed)>>, Len(cmds) + 1, TRUE)
            /\ UNCHANGED polls

\* what the handlers do with the calls they decided on
HandlerCalls(modes, speeds) ==
  IF modes # {} THEN \E mode \in modes : CallChangeFanMode(mode)
  ELSE IF speeds # {} THEN \E speed \in speeds : CallChangeFanSpeed(speed)
  ELSE UNCHANGED <<cmds, writes, polls>>

\* the setAttribute calls of updateValues: the attributes take the new values and the
\* change handlers run with an offline context
WriteAttributes(new) ==
  /\ attrs' = new
  /\ HandlerCalls(FanModeHandler(new.fanMode, TRUE), PercentSettingHandler(new.percentSetting, TRUE))

\* the updateCallback of the latest delivery has been run
CallbackIdle == Len(runs) = Len(delivered)

\* updateValues(data) for the delivery just made, up to its await or, when it awaits
\* nothing that is pending, to its end
UpdateValues ==
  /\ Len(runs) < Len(delivered)
  /\ LET data == delivered[Len(runs) + 1].status
     IN  IF data.power /\ FetchesModeSpeeds(data.fanSpeed)
           THEN /\ runs' = Append(runs, [data |-> data, pc |-> "getModeSpeeds"])
                /\ UNCHANGED <<attrs, cmds, writes, polls>>
           ELSE /\ runs' = Append(runs, [data |-> data, pc |-> "done"])
                /\ WriteAttributes(AttributesOf(data, SpeedToMatterMode(data.fanSpeed, EmptyMap)))
  /\ UNCHANGED <<timer, intervals, delivered, device, applied, starts, ticks, stopReturned, pureVars>>

\* the getModeSpeeds() responses an updateValues may get: none of the settings or all
ModeSpeedResponses == {EmptyMap, [k \in SpeedKeys |-> DefaultMedium]}

\* getModeSpeeds() of run r resolves: updateValues goes on to its end
ModeSpeedsOk(r, metrics) ==
  /\ r \in 1..Len(runs)
  /\ runs[r].pc = "getModeSpeeds"
  /\ runs' = [runs EXCEPT ![r].pc = "done"]
  /\ WriteAttributes(AttributesOf(runs[r].data, SpeedToMatterMode(runs[r].data.fanSpeed, metrics)))
  /\ UNCHANGED <<timer, intervals, delivered, device, applied, starts, ticks, stopReturned, pureVars>>

\* getModeSpeeds() of run r rejects: updateValues rejects and sets nothing
ModeSpeedsFail(r) ==
  /\ r \in 1..Len(runs)
  /\ runs[r].pc = "getModeSpeeds"
  /\ runs' = [runs EXCEPT ![r].pc = "rejected"]
  /\ UNCHANGED <<attrs, devVars, pureVars>>

\* the fanMode handler runs: the attribute was changed to newValue by a Matter controller
\* (offline = FALSE) or locally (offline = TRUE); the handler itself sets no attribute
FanModeChanged(newValue, offline) ==
  /\ HandlerCalls(FanModeHandler(newValue, offline), {})
  /\ UNCHANGED <<platVars, timer, intervals, delivered, device, applied, starts, ticks, stopReturned, pureVars>>

\* the percentSetting handler runs
PercentSettingChanged(newValue, offline) ==
  /\ HandlerCalls({}, PercentSettingHandler(newValue, offline))
  /\ UNCHANGED <<platVars, timer, intervals, delivered, device, applied, starts, ticks, stopReturned, pureVars>>

(* ------------------------ the device specification --------------------- *)
vars == <<timer, intervals, polls, delivered, device, writes, applied, cmds, starts, ticks,
          stopReturned, pin, pout, pdone, attrs, runs>>

NoInput == [fn |-> "none", metrics |-> EmptyMap, profile |-> 0, speed |-> {}, co2 |-> {}]

NoOutput == [status |-> StatusInfo(EmptyMap, 0), matterMode |-> "", airQuality |-> "", fetched |-> FALSE]

Init ==
  /\ DevInit
  /\ PlatInit
  /\ pin = NoInput
  /\ pout = NoOutput
  /\ pdone = FALSE

Next ==
  \/ StartPolling
  \/ StopPolling
  \/ \E h \in intervals : TimerTick(h)
  \/ \E p \in 1..Len(polls) : FetchMetricsOk(p)
  \/ \E p \in 1..Len(polls) : FetchMetricsFail(p)
  \/ \E p \in 1..Len(polls) : GetProfileOk(p)
  \/ \E p \in 1..Len(polls) : GetProfileFail(p)
  \/ \E mode \in CmdModes : ChangeFanMode(mode)
  \/ \E speed \in CmdSpeeds : ChangeFanSpeed(speed)
  \/ \E w \in 1..Len(writes) : WriteOk(w)
  \/ \E w \in 1..Len(writes) : WriteFail(w)

Spec == Init /\ [][Next]_vars

\* the polling scheduler alone: start, stop, ticks and the fetches of their polls
PollingNext ==
  \/ StartPolling
  \/ StopPolling
  \/ \E h \in intervals : TimerTick(h)
  \/ \E p \in 1..Len(polls) : FetchMetricsOk(p)
  \/ \E p \in 1..Len(polls) : FetchMetricsFail(p)
  \/ \E p \in 1..Len(polls) : GetProfileOk(p)
  \/ \E p \in 1..Len(polls) : GetProfileFail(p)

SpecPolling == Init /\ [][PollingNext]_vars

\* the commands alone: the calls, their writes and the fetches of their polls
CommandsNext ==
  \/ \E mode \in CmdModes : ChangeFanMode(mode)
  \/ \E speed \in CmdSpeeds : ChangeFanSpeed(speed)
  \/ \E w \in 1..Len(writes) : WriteOk(w)
  \/ \E w \in 1..Len(writes) : WriteFail(w)
  \/ \E p \in 1..Len(polls) : FetchMetricsOk(p)
  \/ \E p \in 1..Len(polls) : FetchMetricsFail(p)
  \/ \E p \in 1..Len(polls) : GetProfileOk(p)
  \/ \E p \in 1..Len(polls) : GetProfileFail(p)

SpecCommands == Init /\ [][CommandsNext]_vars

\* the runtime fires an armed interval again and again (setInterval), and the client
\* settles every fetchMetrics and getProfile call, resolving or rejecting it; nothing
\* obliges the platform to call startPolling or stopPolling
PollingFairness ==
  /\ WF_vars(\E h \in intervals : TimerTick(h))
  /\ \A p \in 1..MaxPolls : WF_vars(FetchMetricsOk(p) \/ FetchMetricsFail(p))
  /\ \A p \in 1..MaxPolls : WF_vars(GetProfileOk(p) \/ GetProfileFail(p))

\* the polling scheduler under that scheduling
SpecPollingFair == Init /\ [][PollingNext]_vars /\ PollingFairness

(* ------------- the translations, each applied to drawn inputs ---------- *)
\* register values a response may hold
MetricValues == {ModeRunning, ModeStopped, 50}

\* speed settings a getModeSpeeds response may hold
SpeedSettings == {0, DefaultLow, DefaultMedium, DefaultHigh, 100}

\* every response over keys with values in vals, partial ones included
Responses(keys, vals) == UNION {[K -> vals] : K \in SUBSET keys}

PureInputs ==
  {[fn |-> "getStatusInfo", metrics |-> m, profile |-> r, speed |-> {}, co2 |-> {}] :
     m \in Responses(StatusKeys, MetricValues), r \in 0..MaxRawProfile}
  \cup
  {[fn |-> "valloxSpeedToMatterMode", metrics |-> m, profile |-> 0, speed |-> s, co2 |-> {}] :
     m \in Responses(SpeedKeys, SpeedSettings), s \in {{}} \cup {{v} : v \in 0..MaxSpeed}}
  \cup
  {[fn |-> "airQuality", metrics |-> EmptyMap, profile |-> 0, speed |-> {}, co2 |-> c] :
     c \in {{}} \cup {{v} : v \in 0..MaxCo2}}

PureInit ==
  /\ DevInit
  /\ PlatInit
  /\ pin \in PureInputs
  /\ pout = NoOutput
  /\ pdone = FALSE

\* lines 70-79 of getStatusInfo on the drawn response and raw profile
ApplyGetStatusInfo ==
  /\ ~pdone
  /\ pin.fn = "getStatusInfo"
  /\ pout' = [pout EXCEPT !.status = StatusInfo(pin.metrics, pin.profile)]
  /\ pdone' = TRUE
  /\ UNCHANGED <<pin, devVars, platVars>>

\* valloxSpeedToMatterMode on the drawn speed and getModeSpeeds response
ApplySpeedToMatterMode ==
  /\ ~pdone
  /\ pin.fn = "valloxSpeedToMatterMode"
  /\ pout' = [pout EXCEPT !.matterMode = SpeedToMatterMode(pin.speed, pin.metrics),
                          !.fetched = FetchesModeSpeeds(pin.speed)]
  /\ pdone' = TRUE
  /\ UNCHANGED <<pin, devVars, platVars>>

\* the airQuality expression of updateValues on the drawn carbonDioxideConcentration
ApplyAirQuality ==
  /\ ~pdone
  /\ pin.fn = "airQuality"
  /\ pout' = [pout EXCEPT !.airQuality = AirQuality(pin.co2)]
  /\ pdone' = TRUE
  /\ UNCHANGED <<pin, devVars, platVars>>

PureNext ==
  \/ ApplyGetStatusInfo
  \/ ApplySpeedToMatterMode
  \/ ApplyAirQuality

SpecPure == PureInit /\ [][PureNext]_vars

(* ------------------- the platform under drawn deliveries -------------- *)
\* snapshots the device may deliver: running or stopped, the fan speed missing, 0 or
\* nonzero, two carbon dioxide readings
Snapshots ==
  {StatusInfo(m, PROFILES.HOME) :
     m \in {r \in Responses({"A_CYC_MODE", "A_CYC_FAN_SPEED", "A_CYC_CO2_SENSOR_0"}, {ModeRunning, ModeStopped, 50, 900}) :
              /\ "A_CYC_MODE" \in DOMAIN r /\ r["A_CYC_MODE"] \in {ModeRunning, ModeStopped}
              /\ "A_CYC_FAN_SPEED" \in DOMAIN r => r["A_CYC_FAN_SPEED"] \in {0, 50}
              /\ "A_CYC_CO2_SENSOR_0" \in DOMAIN r /\ r["A_CYC_CO2_SENSOR_0"] \in {50, 900}}}

\* the device invokes updateCallback(data): a poll of it has ended
DeviceDelivers(data) ==
  /\ Len(delivered) < MaxPolls
  /\ delivered' = Append(delivered, [poll |-> 0, status |-> data])
  /\ UNCHANGED <<timer, intervals, polls, device, writes, applied, cmds, starts, ticks, stopReturned,
                 pureVars, platVars>>

\* the platform's updateValues under the deliveries of the device; the callback runs
\* inside the delivery, so nothing else happens between a delivery and its run
UpdatesNext ==
  \/ UpdateValues
  \/ CallbackIdle /\ \E data \in Snapshots : DeviceDelivers(data)
  \/ CallbackIdle /\ \E r \in 1..Len(runs) : \E metrics \in ModeSpeedResponses : ModeSpeedsOk(r, metrics)
  \/ CallbackIdle /\ \E r \in 1..Len(runs) : ModeSpeedsFail(r)

SpecUpdates == Init /\ [][UpdatesNext]_vars

(* ----------------------- the platform and the device ------------------- *)
\* the values a Matter controller may write to fanMode: null and every mode
FanModeValues == {{}} \cup {{mode} : mode \in FanModes}

\* the values a Matter controller may write to percentSetting: null and the speeds
PercentValues == {{}} \cup {{speed} : speed \in CmdSpeeds}

\* polling, the deliveries into updateValues, and the attribute changes of a controller
\* with the commands their handlers make
PlatformNext ==
  \/ UpdateValues
  \/ CallbackIdle /\ StartPolling
  \/ CallbackIdle /\ \E h \in intervals : TimerTick(h)
  \/ CallbackIdle /\ \E p \in 1..Len(polls) : FetchMetricsOk(p)
  \/ CallbackIdle /\ \E p \in 1..Len(polls) : FetchMetricsFail(p)
  \/ CallbackIdle /\ \E p \in 1..Len(polls) : GetProfileOk(p)
  \/ CallbackIdle /\ \E p \in 1..Len(polls) : GetProfileFail(p)
  \/ CallbackIdle /\ \E r \in 1..Len(runs) : \E metrics \in ModeSpeedResponses : ModeSpeedsOk(r, metrics)
  \/ CallbackIdle /\ \E r \in 1..Len(runs) : ModeSpeedsFail(r)
  \/ CallbackIdle /\ \E v \in FanModeValues : \E offline \in BOOLEAN : FanModeChanged(v, offline)
  \/ CallbackIdle /\ \E v \in PercentValues : \E offline \in BOOLEAN : PercentSettingChanged(v, offline)
  \/ CallbackIdle /\ \E w \in 1..Len(writes) : WriteOk(w)
  \/ CallbackIdle /\ \E w \in 1..Len(writes) : WriteFail(w)

SpecPlatform == Init /\ [][PlatformNext]_vars

(* ------------------------------ properties ----------------------------- *)
\* the ids of the writes command c has made, in call order
WritesOf(c) == SelectSeq([w \in 1..Len(writes) |-> w], LAMBDA w : writes[w].cmd = c)

\* what a write asks of the unit
Payload(w) == [kind |-> writes[w].kind, regs |-> writes[w].regs, arg |-> writes[w].arg]

\* the updateCallback invocations made for poll p
DeliveriesOf(p) == {i \in 1..Len(delivered) : delivered[i].poll = p}

\* C1: once stopPolling() has returned, and until the next startPolling() call, no
\* timer-triggered poll is started: every poll a tick started, started while no stop
\* had returned since the last start.
C1_NoTimerPollAfterStop ==
  \A p \in 1..Len(polls) : polls[p].origin = "timer" => ~polls[p].afterStop

\* C2: in every reachable state at most one recurring timer is armed for the device.
C2_AtMostOneTimer == Cardinality(intervals) <= 1

\* C3: when the fetch of a timer-triggered poll fails (fetchMetrics or getProfile
\* rejects), that step invokes no callback, starts no other poll, makes no write and
\* leaves the timer armed; a failed poll never has a delivery; and a timer-triggered
\* poll whose fetches succeed delivers exactly once, whatever happened to earlier polls.
C3_FailedTickSkipsOnlyItsDelivery ==
  /\ [](\A p \in 1..Len(polls) :
          polls[p].origin = "timer" =>
            /\ polls[p].stage = "failed" => DeliveriesOf(p) = {}
            /\ polls[p].stage = "delivered" => Cardinality(DeliveriesOf(p)) = 1)
  /\ [][\A p \in 1..Len(polls) :
          polls[p].origin = "timer" /\ polls[p].stage \in {"fetchMetrics", "getProfile"} =>
            /\ polls'[p].stage = "failed" =>
                 /\ delivered' = delivered
                 /\ Len(polls') = Len(polls)
                 /\ writes' = writes
                 /\ intervals' = intervals
                 /\ timer' = timer
            /\ polls'[p].stage = "delivered" =>
                 /\ Len(delivered') = Len(delivered) + 1
                 /\ delivered'[Len(delivered')].poll = p]_vars

\* C3 witness: a tick's poll failed, the timer is still armed, and a later tick's poll
\* has delivered.
C3_Witness ==
  \E p, q \in 1..Len(polls) :
    /\ p < q
    /\ polls[p].origin = "timer" /\ polls[p].stage = "failed"
    /\ polls[q].origin = "timer" /\ polls[q].stage = "delivered"
    /\ DeliveriesOf(q) # {}
    /\ intervals # {}

\* C4: the unit takes the profile write of a changeFanMode only after it has taken the
\* mode-register write of the same command.
C4_ModeBeforeProfile ==
  \A i \in 1..Len(applied) :
    writes[applied[i]].kind = "profile" =>
      \E j \in 1..(i - 1) :
        /\ writes[applied[j]].cmd = writes[applied[i]].cmd
        /\ writes[applied[j]].kind = "values"
        /\ "A_CYC_MODE" \in DOMAIN writes[applied[j]].regs

\* C5: the fetch of a command's poll is issued only after every write of that command
\* has completed: no write of the command is in flight when the poll starts.
C5_PollAfterWrites ==
  \A p \in 1..Len(polls) : polls[p].origin \in {"mode", "speed"} => polls[p].wip = {}

\* C6: changeFanSpeed(speed) with speed # 0 first writes speed to both fan override
\* registers; any further write of the command is made only once that write has
\* completed; the further writes are the running sentinel to A_CYC_MODE and then the
\* FIREPLACE profile, never another profile.
C6_FanRegistersThenFireplace ==
  \A c \in 1..Len(cmds) :
    cmds[c].op = "speed" /\ cmds[c].speed # 0 =>
      LET ws == WritesOf(c)
      IN  /\ Len(ws) \in {1, 3}
          /\ Payload(ws[1]) = [kind |-> "values",
                               regs |-> [k \in {"A_CYC_FIREPLACE_EXTR_FAN", "A_CYC_FIREPLACE_SUPP_FAN"} |-> cmds[c].speed],
                               arg |-> RawArg(0)]
          /\ Len(ws) = 3 =>
               /\ writes[ws[1]].state = "applied"
               /\ \A i \in 2..3 : \A j \in 1..Len(applied) :
                    applied[j] = ws[i] => \E k \in 1..(j - 1) : applied[k] = ws[1]
               /\ Payload(ws[2]) = [kind |-> "values", regs |-> [k \in {"A_CYC_MODE"} |-> 0], arg |-> RawArg(0)]
               /\ writes[ws[3]].kind = "profile"
               /\ writes[ws[3]].arg = RawArg(PROFILES.FIREPLACE)
               /\ writes[ws[3]].arg \notin {RawArg(PROFILES.AWAY), RawArg(PROFILES.HOME), RawArg(PROFILES.BOOST)}

\* C6 witness: a changeFanSpeed with a nonzero speed has made its three writes and the
\* unit has taken the profile write.
C6_Witness ==
  \E c \in 1..Len(cmds) :
    /\ cmds[c].op = "speed" /\ cmds[c].speed # 0
    /\ Len(WritesOf(c)) = 3
    /\ writes[WritesOf(c)[3]].state = "applied"

\* C7: changeFanSpeed(0) makes exactly the writes changeFanMode('OFF') makes: the one
\* write of the stopped sentinel 5 to A_CYC_MODE, no profile write, no fan register write.
C7_SpeedZeroWritesAsOff ==
  \A c \in 1..Len(cmds) :
    (cmds[c].op = "speed" /\ cmds[c].speed = 0) \/ (cmds[c].op = "mode" /\ cmds[c].mode = "OFF") =>
      /\ Len(WritesOf(c)) = 1
      /\ Payload(WritesOf(c)[1]) = [kind |-> "values", regs |-> [k \in {"A_CYC_MODE"} |-> 5], arg |-> RawArg(0)]

\* C7 witness: a changeFanSpeed(0) has resolved after both of its polls delivered.
C7_Witness ==
  \E c \in 1..Len(cmds) :
    /\ cmds[c].op = "speed" /\ cmds[c].speed = 0 /\ cmds[c].pc = "resolved"
    /\ writes[WritesOf(c)[1]].state = "applied"

\* C8: changeFanMode(mode) with a name PROFILES lacks hands setProfile the raw value
\* PROFILES holds for HOME, the value changeFanMode('HOME') hands it.
C8_UnknownModeWritesRawHome ==
  \A w \in 1..Len(writes) :
    (/\ writes[w].kind = "profile"
     /\ cmds[writes[w].cmd].op = "mode"
     /\ cmds[writes[w].cmd].mode \notin DOMAIN PROFILES) =>
      writes[w].arg = RawArg(PROFILES.HOME)

\* C9: when the A_CYC_MODE a poll read is not the running value 0, the status has
\* power = false, fanMode = 'OFF' and fanSpeed undefined.
C9_StoppedMeansOff ==
  (pdone /\ pin.fn = "getStatusInfo" /\ Get(pin.metrics, "A_CYC_MODE") # {0}) =>
    /\ pout.status.power = FALSE
    /\ pout.status.fanMode = "OFF"
    /\ pout.status.fanSpeed = {}

\* C10: for a nonzero speed and speed settings with AWAY <= HOME <= BOOST the result is
\* Low when speed <= AWAY, Medium when AWAY < speed <= HOME, High when speed > HOME.
C10_SpeedBuckets ==
  (/\ pdone
   /\ pin.fn = "valloxSpeedToMatterMode"
   /\ pin.speed \notin {{}, {0}}
   /\ DOMAIN pin.metrics = SpeedKeys
   /\ pin.metrics["A_CYC_AWAY_SPEED_SETTING"] <= pin.metrics["A_CYC_HOME_SPEED_SETTING"]
   /\ pin.metrics["A_CYC_HOME_SPEED_SETTING"] <= pin.metrics["A_CYC_BOOST_SPEED_SETTING"]) =>
    \A s \in pin.speed :
      pout.matterMode = IF s <= pin.metrics["A_CYC_AWAY_SPEED_SETTING"] THEN "Low"
                        ELSE IF s <= pin.metrics["A_CYC_HOME_SPEED_SETTING"] THEN "Medium"
                        ELSE "High"

\* how severe an air quality is
Severity(q) ==
  CASE q = "Unknown" -> 0
    [] q = "Good" -> 1
    [] q = "Moderate" -> 2
    [] q = "Poor" -> 3
    [] q = "VeryPoor" -> 4
    [] q = "ExtremelyPoor" -> 5

\* C11: for an undefined carbonDioxideConcentration and for every integer one from 0 to
\* MaxCo2 the air quality is Unknown when it is undefined or <= 0, Good below 800,
\* Moderate from 800 below 1200, Poor from 1200 below 1800, VeryPoor from 1800 below
\* 2100, ExtremelyPoor from 2100; and it is at least as severe as that of the
\* concentration one lower.
C11_AirQualityBands ==
  (pdone /\ pin.fn = "airQuality") =>
    /\ pin.co2 = {} => pout.airQuality = "Unknown"
    /\ \A v \in pin.co2 :
         /\ pout.airQuality = IF v <= 0 THEN "Unknown"
                              ELSE IF v < 800 THEN "Good"
                              ELSE IF v < 1200 THEN "Moderate"
                              ELSE IF v < 1800 THEN "Poor"
                              ELSE IF v < 2100 THEN "VeryPoor"
                              ELSE "ExtremelyPoor"
         /\ v \in {800, 1200, 1800, 2100} =>
              Severity(pout.airQuality) = Severity(AirQuality({v - 1})) + 1
         /\ v > 0 => Severity(AirQuality({v - 1})) <= Severity(pout.airQuality)

\* C11 witness: the classification was applied to the boundary value 2100 and gave
\* ExtremelyPoor.
C11_Witness ==
  pdone /\ pin.fn = "airQuality" /\ pin.co2 = {2100} /\ pout.airQuality = "ExtremelyPoor"

\* C12: for every raw profile value PROFILES holds, the fanMode name getStatusInfo gives
\* for it, handed to changeFanMode, makes setProfile receive that raw value again.
C12_ProfileRoundTrip ==
  (/\ pdone
   /\ pin.fn = "getStatusInfo"
   /\ \E name \in DOMAIN PROFILES : PROFILES[name] = pin.profile) =>
    /\ pout.status.fanMode # "OFF"
    /\ ModeWrites(pout.status.fanMode)[2].kind = "profile"
    /\ ModeWrites(pout.status.fanMode)[2].arg = RawArg(pin.profile)

\* C12 witness: the translation was applied to the raw value of FIREPLACE and gave the
\* name FIREPLACE.
C12_Witness ==
  /\ pdone
  /\ pin.fn = "getStatusInfo"
  /\ pin.profile = PROFILES.FIREPLACE
  /\ pout.status.fanMode = "FIREPLACE"

\* C13: a command one of whose writes failed does not resolve (its promise rejects), and
\* no command makes the same write twice.
C13_WriteFailureRejects ==
  /\ \A w \in 1..Len(writes) :
       writes[w].state = "failed" => cmds[writes[w].cmd].pc # "resolved"
  /\ \A v, w \in 1..Len(writes) :
       (v # w /\ writes[v].cmd = writes[w].cmd) => Payload(v) # Payload(w)

\* C14: for every subset of the requested keys in the fetchMetrics response and every
\* raw profile value the translation gives a status: power is a boolean, each of
\* fanSpeed, temperature, relativeHumidity and carbonDioxideConcentration is the value
\* of its key, undefined when the key is absent, and fanMode is 'OFF' when PROFILES
\* has no entry for the raw profile value.
C14_TranslationTotal ==
  (pdone /\ pin.fn = "getStatusInfo") =>
    /\ DOMAIN pout.status =
         {"power", "fanMode", "fanSpeed", "temperature", "relativeHumidity", "carbonDioxideConcentration"}
    /\ pout.status.power \in BOOLEAN
    /\ "A_CYC_MODE" \notin DOMAIN pin.metrics => pout.status.power = FALSE
    /\ \A f \in {<<"fanSpeed", "A_CYC_FAN_SPEED">>, <<"temperature", "A_CYC_TEMP_SUPPLY_AIR">>,
                 <<"relativeHumidity", "A_CYC_RH_VALUE">>,
                 <<"carbonDioxideConcentration", "A_CYC_CO2_SENSOR_0">>} :
         pout.status[f[1]] = IF f[2] \in DOMAIN pin.metrics THEN {pin.metrics[f[2]]} ELSE {}
    /\ (\A name \in DOMAIN PROFILES : PROFILES[name] # pin.profile) => pout.status.fanMode = "OFF"
    /\ (\E name \in DOMAIN PROFILES : PROFILES[name] = pin.profile) =>
         PROFILES[pout.status.fanMode] = pin.profile

\* C14 witness: the translation was applied to an empty response and a raw profile
\* value PROFILES lacks.
C14_Witness ==
  /\ pdone
  /\ pin.fn = "getStatusInfo"
  /\ DOMAIN pin.metrics = {}
  /\ pin.profile = MaxRawProfile
  /\ pout.status.fanMode = "OFF"
  /\ pout.status.fanSpeed = {}

\* C15: a stopPolling() step taken while the scheduler is stopped (no startPolling()
\* call yet, or stopPolling() has returned since the last one) changes no timer, starts
\* no poll, invokes no callback and makes no write; taken otherwise it leaves this.timer
\* undefined and no interval armed.
C15_StopPollingFrame ==
  [][StopPolling =>
       IF starts = 0 \/ stopReturned
         THEN UNCHANGED <<timer, intervals, polls, delivered, writes, cmds>>
         ELSE timer' = {} /\ intervals' = {} /\ UNCHANGED <<polls, delivered, writes, cmds>>]_vars

\* C16: for speed 0 and for an undefined speed valloxSpeedToMatterMode returns Off
\* whatever the speed settings are, and makes no getModeSpeeds() call.
C16_ZeroSpeedIsOff ==
  (pdone /\ pin.fn = "valloxSpeedToMatterMode" /\ pin.speed \in {{}, {0}}) =>
    /\ pout.matterMode = "Off"
    /\ ~pout.fetched

\* C16 witness: the translation was applied to speed 0 with all three speed settings
\* present and gave Off.
C16_Witness ==
  /\ pdone
  /\ pin.fn = "valloxSpeedToMatterMode"
  /\ pin.speed = {0}
  /\ DOMAIN pin.metrics = SpeedKeys
  /\ pout.matterMode = "Off"

\* the updateCallback invocations made by the polls of command c
DeliveriesOfCmd(c) ==
  {i \in 1..Len(delivered) : polls[delivered[i].poll].origin \in {"mode", "speed"}
                             /\ polls[delivered[i].poll].cmd = c}

\* C17: a changeFanMode or changeFanSpeed call that has resolved has invoked the
\* callback exactly once, and no command invokes it more than once.
C17_OneDeliveryPerCommand ==
  \A c \in 1..Len(cmds) :
    /\ Cardinality(DeliveriesOfCmd(c)) <= 1
    /\ cmds[c].pc = "resolved" => Cardinality(DeliveriesOfCmd(c)) = 1

\* C18: once startPolling() has been called, the interval is eventually armed or a
\* stopPolling() follows, whether the immediate poll delivers or fails.
C18_StartEventuallyArms ==
  []((starts > 0 /\ ~stopReturned) => <>((timer # {} /\ intervals # {}) \/ stopReturned))

\* the polls whose fetches are under way
InFlight == {p \in 1..Len(polls) : polls[p].stage \in {"fetchMetrics", "getProfile"}}

\* C19: a poll in flight can take its next step whatever other polls are in flight; the
\* step that ends a poll whose fetchMetrics and getProfile both resolved invokes the
\* callback once, with the status built from the metrics that poll fetched and the
\* profile it read; and a poll that has ended that way has exactly one callback
\* invocation, any other poll none.
C19_PollsIndependent ==
  /\ [](\A p \in 1..Len(polls) :
          /\ polls[p].stage = "fetchMetrics" => ENABLED FetchMetricsOk(p)
          /\ polls[p].stage = "getProfile" => ENABLED GetProfileOk(p)
          /\ Cardinality(DeliveriesOf(p)) = IF polls[p].stage = "delivered" THEN 1 ELSE 0)
  /\ [][\A p \in 1..Len(polls) :
          (polls[p].stage = "getProfile" /\ polls'[p].stage = "delivered") =>
            delivered' = Append(delivered, [poll |-> p,
                                            status |-> StatusInfo(polls[p].metrics, device.profile)])]_vars

\* C19 witness: a command's poll, started while the poll of a tick was in flight, has
\* delivered, and the tick's poll is still in flight.
C19_Witness ==
  \E p, q \in 1..Len(polls) :
    /\ p < q
    /\ polls[p].origin = "timer" /\ p \in InFlight
    /\ polls[q].origin = "mode" /\ polls[q].stage = "delivered"
    /\ Cardinality(DeliveriesOf(q)) = 1

\* C20: while an interval is armed a tick is enabled whatever polls are in flight (up to
\* the tick and poll bounds); under fair scheduling ticks keep occurring until those
\* bounds are reached unless every interval is cleared; and every poll a tick started
\* settles, invoking the callback exactly once unless one of its fetches failed.
C20_TicksKeepDelivering ==
  /\ []((intervals # {} /\ ticks < MaxTicks /\ PollBudget < MaxPolls) =>
          ENABLED (\E h \in intervals : TimerTick(h)))
  /\ [](intervals # {} => <>(ticks = MaxTicks \/ PollBudget >= MaxPolls \/ intervals = {}))
  /\ \A p \in 1..MaxPolls :
       []((p \in InFlight /\ polls[p].origin = "timer") =>
            <>(/\ p \in 1..Len(polls)
               /\ \/ polls[p].stage = "failed"
                  \/ polls[p].stage = "delivered" /\ Cardinality(DeliveriesOf(p)) = 1))

\* C20 witness: with the scheduler never stopped, the last tick the bound allows has
\* delivered while the poll of an earlier tick is still in flight.
C20_Witness ==
  /\ ~stopReturned
  /\ ticks = MaxTicks
  /\ \E p, q \in 1..Len(polls) :
       /\ p < q
       /\ polls[p].origin = "timer" /\ p \in InFlight
       /\ polls[q].origin = "timer" /\ polls[q].stage = "delivered"
       /\ Cardinality(DeliveriesOf(q)) = 1

\* the attribute values updateValues may set for snapshot data
AttributesFor(data) ==
  {AttributesOf(data, SpeedToMatterMode(data.fanSpeed, metrics)) : metrics \in ModeSpeedResponses}

\* C21: once every delivery has been handled by an updateValues run and every run has
\* ended without rejecting, the attributes are those updateValues sets for the most
\* recently delivered snapshot.
C21_AttributesOfLatestDelivery ==
  (/\ delivered # <<>>
   /\ CallbackIdle
   /\ \A r \in 1..Len(runs) : runs[r].pc = "done") =>
    attrs \in AttributesFor(delivered[Len(delivered)].status)

\* C22: the callback invocations are in the order in which their polls issued
\* fetchMetrics: a poll started earlier never delivers after a poll started later.
C22_DeliveriesInStartOrder ==
  \A i, j \in 1..Len(delivered) : i < j => delivered[i].poll < delivered[j].poll

\* C23: a step that ends an updateValues run leaves the fanMode attribute Off exactly
\* when it leaves percentSetting 0, and leaves the reachable attribute of both
\* endpoints equal to the power flag of the snapshot the run handled.
C23_OffIffZeroPercent ==
  [][\A r \in 1..Len(runs') :
       (runs'[r].pc = "done" /\ (r > Len(runs) \/ runs[r].pc # "done")) =>
         /\ (attrs'.fanMode = {"Off"}) <=> (attrs'.percentSetting = {0})
         /\ attrs'.fanReachable = runs'[r].data.power
         /\ attrs'.aqsReachable = runs'[r].data.power]_vars

\* C24: a command is made only by a step in which a handler runs for a value that is
\* not null with a context that is not offline; a write is made only by such a step or
\* by a changeFanSpeed going on after its awaited write; a step of updateValues makes
\* no command and no write, so polls and deliveries alone never write to the unit; and
\* a fanMode change maps Off, Low, Medium, High to OFF, AWAY, HOME, BOOST and any
\* other mode to HOME, never to FIREPLACE.
C24_PollingNeverWrites ==
  /\ [](\A c \in 1..Len(cmds) :
          cmds[c].op = "mode" => cmds[c].mode \in {"OFF", "AWAY", "HOME", "BOOST"})
  /\ [][/\ runs' # runs => (cmds' = cmds /\ writes' = writes)
        /\ Len(cmds') > Len(cmds) =>
             \/ \E v \in FanModes :
                  /\ FanModeChanged({v}, FALSE)
                  /\ cmds'[Len(cmds')].op = "mode"
                  /\ cmds'[Len(cmds')].mode = CASE v = "Off" -> "OFF"
                                                [] v = "Low" -> "AWAY"
                                                [] v = "Medium" -> "HOME"
                                                [] v = "High" -> "BOOST"
                                                [] OTHER -> "HOME"
             \/ \E speed \in CmdSpeeds :
                  /\ PercentSettingChanged({speed}, FALSE)
                  /\ cmds'[Len(cmds')].op = "speed"
        /\ (Len(writes') > Len(writes) /\ Len(cmds') = Len(cmds)) =>
             \E w \in 1..Len(writes) : writes[w].awaited /\ WriteOk(w)]_vars

\* C24 witness: polls have delivered and updateValues runs have ended, one of them
\* after awaiting getModeSpeeds, and the only command is the changeFanMode('BOOST') of a
\* fanMode change to High.
C24_Witness ==
  /\ Len(delivered) >= 2
  /\ \A r \in 1..Len(runs) : runs[r].pc = "done"
  /\ \E r \in 1..Len(runs) : runs[r].data.power
  /\ Len(cmds) = 1
  /\ cmds[1].op = "mode" /\ cmds[1].mode = "BOOST"
  /\ Len(writes) = 2

====
